---- MODULE Spec2Model ----
(***************************************************************************)
(* Model of LiteraryAnalysisAPI: the SSRF-hardened URL fetcher             *)
(* (app/services/scraper.py: the blocked-range table, the address check,   *)
(* is_safe_url, the fetch and the text extraction of fetch_article_text)   *)
(* and the HTTP API over the analyses table (app/routes.py).               *)
(*                                                                         *)
(* Specifications: Spec (one call of fetch_article_text), FairSpec (its    *)
(* termination), SpecClassify (the address check alone), SpecShared (calls *)
(* of is_safe_url side by side), SpecExtract (the extraction alone, over   *)
(* generated documents) and SpecApi (sequences of API requests).           *)
(*                                                                         *)
(* A URL is a sequence of one-character strings, so that urlparse is a     *)
(* real parse.  An address is a record [v, b]: v is the IP version, b the  *)
(* tuple of its units (4 octets for IPv4, 8 16-bit groups for IPv6).       *)
(***************************************************************************)
EXTENDS Integers, Sequences, FiniteSets, TLC

(***************************************************************************)
(* Text helpers (Python str methods used by urlparse).                     *)
(***************************************************************************)
UpperLetters ==
  <<"A","B","C","D","E","F","G","H","I","J","K","L","M",
    "N","O","P","Q","R","S","T","U","V","W","X","Y","Z">>

LowerLetters ==
  <<"a","b","c","d","e","f","g","h","i","j","k","l","m",
    "n","o","p","q","r","s","t","u","v","w","x","y","z">>

DigitChars == <<"0","1","2","3","4","5","6","7","8","9">>

Range(s) == { s[i] : i \in DOMAIN s }

\* str.lower() on one character
LowerChar(c) ==
  IF c \in Range(UpperLetters)
    THEN LowerLetters[CHOOSE i \in DOMAIN UpperLetters : UpperLetters[i] = c]
    ELSE c

\* str.lower()
Lower(s) == [i \in DOMAIN s |-> LowerChar(s[i])]

\* str.find(c) + 1: the 1-based index of the first c from position start, 0 if none
FindFrom(s, c, start) ==
  IF \E i \in start..Len(s) : s[i] = c
    THEN CHOOSE i \in start..Len(s) : s[i] = c /\ \A j \in start..(i-1) : s[j] # c
    ELSE 0

Find(s, c) == FindFrom(s, c, 1)

\* the 1-based index of the last c, 0 if none
RFind(s, c) ==
  IF \E i \in DOMAIN s : s[i] = c
    THEN CHOOSE i \in DOMAIN s : s[i] = c /\ \A j \in (i+1)..Len(s) : s[j] # c
    ELSE 0

\* str.partition(c): <<before, found, after>>
Partition(s, c) ==
  LET i == Find(s, c)
  IN IF i = 0 THEN <<s, FALSE, <<>>>>
     ELSE <<SubSeq(s, 1, i-1), TRUE, SubSeq(s, i+1, Len(s))>>

\* str.rpartition(c): <<before, found, after>>
RPartition(s, c) ==
  LET i == RFind(s, c)
  IN IF i = 0 THEN <<<<>>, FALSE, s>>
     ELSE <<SubSeq(s, 1, i-1), TRUE, SubSeq(s, i+1, Len(s))>>

\* url.lstrip(_WHATWG_C0_CONTROL_OR_SPACE), for the characters of the model
RECURSIVE LStrip(_)
LStrip(s) ==
  IF s # <<>> /\ s[1] \in {" ", "\t", "\n", "\r"} THEN LStrip(Tail(s)) ELSE s

\* url.replace(b, "") for b in _UNSAFE_URL_BYTES_TO_REMOVE
RemoveUnsafe(s) == SelectSeq(s, LAMBDA c : c \notin {"\t", "\r", "\n"})

scheme_chars ==
  Range(LowerLetters) \cup Range(UpperLetters) \cup Range(DigitChars) \cup {"+", "-", "."}

HexChars ==
  Range(DigitChars) \cup {"a","b","c","d","e","f","A","B","C","D","E","F"}

(***************************************************************************)
(* urllib.parse.urlparse, as far as is_safe_url uses it: scheme, netloc    *)
(* and hostname.  The result is [err, scheme, netloc]; err is TRUE where   *)
(* urlsplit raises ValueError.                                             *)
(***************************************************************************)
\* _splitnetloc(url, 2): the text between the leading // and the first of / ? #
SplitNetloc(rest) ==
  LET ends == { i \in 3..Len(rest) : rest[i] \in {"/", "?", "#"} }
      delim == IF ends = {} THEN Len(rest) + 1
               ELSE CHOOSE i \in ends : \A j \in ends : i <= j
  IN SubSeq(rest, 3, delim - 1)

\* _check_bracketed_host accepts: an IPv6 literal (hex groups and colons,
\* at least two colons, an optional %zone) or an IPvFuture literal;
\* everything else raises
BracketedHostOk(h) ==
  IF h # <<>> /\ h[1] = "v"
    THEN /\ Len(h) >= 4
         /\ \E d \in 3..(Len(h)-1) :
              /\ h[d] = "."
              /\ \A i \in 2..(d-1) : h[i] \in HexChars
    ELSE LET z == Partition(h, "%")
         IN /\ \A i \in DOMAIN z[1] : z[1][i] \in HexChars \cup {":"}
            /\ Cardinality({ i \in DOMAIN z[1] : z[1][i] = ":" }) >= 2
            /\ (z[2] => z[3] # <<>>)

\* urlparse keeping the scheme as typed instead of lower-casing it
urlparse_keepcase(u) ==
  LET u0 == RemoveUnsafe(LStrip(u))
      i == Find(u0, ":")
      hasScheme ==
        /\ i > 1
        /\ u0[1] \in Range(LowerLetters) \cup Range(UpperLetters)
        /\ \A k \in 1..(i-1) : u0[k] \in scheme_chars
      scheme == IF hasScheme THEN SubSeq(u0, 1, i-1) ELSE <<>>
      rest == IF hasScheme THEN SubSeq(u0, i+1, Len(u0)) ELSE u0
      hasNetloc == Len(rest) >= 2 /\ rest[1] = "/" /\ rest[2] = "/"
      netloc == IF hasNetloc THEN SplitNetloc(rest) ELSE <<>>
      open == "[" \in Range(netloc)
      close == "]" \in Range(netloc)
      bracketed == Partition(Partition(netloc, "[")[3], "]")[1]
      err == \/ open # close
             \/ open /\ close /\ ~BracketedHostOk(bracketed)
  IN [err |-> err, scheme |-> scheme, netloc |-> netloc]

urlparse(u) ==
  LET u0 == RemoveUnsafe(LStrip(u))
      i == Find(u0, ":")
      hasScheme ==
        /\ i > 1
        /\ u0[1] \in Range(LowerLetters) \cup Range(UpperLetters)
        /\ \A k \in 1..(i-1) : u0[k] \in scheme_chars
      scheme == IF hasScheme THEN Lower(SubSeq(u0, 1, i-1)) ELSE <<>>
      rest == IF hasScheme THEN SubSeq(u0, i+1, Len(u0)) ELSE u0
      hasNetloc == Len(rest) >= 2 /\ rest[1] = "/" /\ rest[2] = "/"
      netloc == IF hasNetloc THEN SplitNetloc(rest) ELSE <<>>
      open == "[" \in Range(netloc)
      close == "]" \in Range(netloc)
      bracketed == Partition(Partition(netloc, "[")[3], "]")[1]
      err == \/ open # close
             \/ open /\ close /\ ~BracketedHostOk(bracketed)
  IN [err |-> err, scheme |-> scheme, netloc |-> netloc]

\* parsed.hostname without splitting the port off the host
hostname_keepport(parsed) == Lower(RPartition(parsed.netloc, "@")[3])

\* parsed.hostname (_hostinfo[0], lower-cased up to a zone separator);
\* the empty sequence stands for None
hostname(parsed) ==
  LET hostinfo == RPartition(parsed.netloc, "@")[3]
      br == Partition(hostinfo, "[")
      host == IF br[2] THEN Partition(br[3], "]")[1]
              ELSE Partition(hostinfo, ":")[1]
      z == Partition(host, "%")
  IN IF host = <<>> THEN <<>>
     ELSE Lower(z[1]) \o (IF z[2] THEN <<"%">> ELSE <<>>) \o z[3]

(***************************************************************************)
(* Addresses and networks (module ipaddress).                              *)
(***************************************************************************)
V4(a, b, c, d) == [v |-> 4, b |-> <<a, b, c, d>>]

V6(a, b, c, d, e, f, g, h) == [v |-> 6, b |-> <<a, b, c, d, e, f, g, h>>]

\* ipaddress.ip_network(text): version, network address and prefix length
Net4(a, b, c, d, prefix) == [v |-> 4, b |-> <<a, b, c, d>>, prefix |-> prefix]

Net6(a, b, c, d, e, f, g, h, prefix) ==
  [v |-> 6, b |-> <<a, b, c, d, e, f, g, h>>, prefix |-> prefix]

\* bits per unit of the address tuple
UnitBits(v) == IF v = 4 THEN 8 ELSE 16

\* unit i of (address & netmask) for a netmask of the given prefix length
MaskedUnit(x, i, prefix, w) ==
  LET over == prefix - (i - 1) * w
      keep == IF over < 0 THEN 0 ELSE IF over > w THEN w ELSE over
      d == 2 ^ (w - keep)
  IN (x \div d) * d

\* _BaseNetwork.__contains__: `ip_obj in blocked_range`
InNetwork(ip, net) ==
  /\ ip.v = net.v
  /\ \A i \in DOMAIN ip.b :
       MaskedUnit(ip.b[i], i, net.prefix, UnitBits(net.v)) = net.b[i]

\* the table with 172.16.0.0/12 narrowed to 172.16.0.0/16
BLOCKED_IP_RANGES_narrow ==
  << Net4(127, 0, 0, 0, 8),
     Net4(10, 0, 0, 0, 8),
     Net4(172, 16, 0, 0, 16),
     Net4(192, 168, 0, 0, 16),
     Net4(169, 254, 0, 0, 16),
     Net6(0, 0, 0, 0, 0, 0, 0, 1, 128),
     Net6(64512, 0, 0, 0, 0, 0, 0, 0, 7),
     Net6(65152, 0, 0, 0, 0, 0, 0, 0, 10) >>

BLOCKED_IP_RANGES ==
  << Net4(127, 0, 0, 0, 8),
     Net4(10, 0, 0, 0, 8),
     Net4(172, 16, 0, 0, 12),
     Net4(192, 168, 0, 0, 16),
     Net4(169, 254, 0, 0, 16),
     Net6(0, 0, 0, 0, 0, 0, 0, 1, 128),
     Net6(64512, 0, 0, 0, 0, 0, 0, 0, 7),
     Net6(65152, 0, 0, 0, 0, 0, 0, 0, 10) >>

\* the list the module's name BLOCKED_IP_RANGES is bound to: built once, when
\* the module is imported, and read by every call of is_safe_url
VARIABLE ranges

\* the for loop of is_safe_url over BLOCKED_IP_RANGES: TRUE when some range
\* contains ip_obj (the function then returns False)
IsBlocked(ip_obj) ==
  \E k \in DOMAIN ranges : InNetwork(ip_obj, ranges[k])

(***************************************************************************)
(* Dotted-quad text: what socket.gethostbyname returns and                 *)
(* ipaddress.ip_address parses.                                            *)
(***************************************************************************)
DigitValue(c) == (CHOOSE i \in DOMAIN DigitChars : DigitChars[i] = c) - 1

RECURSIVE DecimalValue(_)
DecimalValue(s) ==
  IF s = <<>> THEN 0
  ELSE 10 * DecimalValue(SubSeq(s, 1, Len(s) - 1)) + DigitValue(s[Len(s)])

\* str(octet)
FormatOctet(n) ==
  IF n >= 100 THEN <<DigitChars[(n \div 100) + 1], DigitChars[((n \div 10) % 10) + 1],
                     DigitChars[(n % 10) + 1]>>
  ELSE IF n >= 10 THEN <<DigitChars[(n \div 10) + 1], DigitChars[(n % 10) + 1]>>
  ELSE <<DigitChars[n + 1]>>

\* the dotted-quad text of an IPv4 address
FormatIPv4(ip) ==
  FormatOctet(ip.b[1]) \o <<".">> \o FormatOctet(ip.b[2]) \o <<".">> \o
  FormatOctet(ip.b[3]) \o <<".">> \o FormatOctet(ip.b[4])

\* str.split(c)
RECURSIVE Split(_, _)
Split(s, c) ==
  LET p == Partition(s, c)
  IN IF p[2] THEN <<p[1]>> \o Split(p[3], c) ELSE <<s>>

\* a decimal octet as IPv4Address accepts it: 1 to 3 digits, no leading
\* zero, at most 255
OctetOk(part) ==
  /\ Len(part) \in 1..3
  /\ \A i \in DOMAIN part : part[i] \in Range(DigitChars)
  /\ (Len(part) > 1 => part[1] # "0")
  /\ DecimalValue(part) <= 255

\* ipaddress.ip_address(text) for the text gethostbyname returns (always
\* dotted-quad): [err, ip]; err is TRUE where it raises ValueError
ip_address(text) ==
  LET parts == Split(text, ".")
      ok == Len(parts) = 4 /\ \A i \in 1..4 : OctetOk(parts[i])
  IN IF ok
       THEN [err |-> FALSE,
             ip |-> V4(DecimalValue(parts[1]), DecimalValue(parts[2]),
                       DecimalValue(parts[3]), DecimalValue(parts[4]))]
       ELSE [err |-> TRUE, ip |-> V4(0, 0, 0, 0)]

(***************************************************************************)
(* Name resolution.  dns maps a name to the sequence of address records    *)
(* the resolver currently answers with; the hosts file fixes localhost.    *)
(***************************************************************************)
N_localhost == <<"l","o","c","a","l","h","o","s","t">>

N_example == <<"e","x","a","m","p","l","e",".","c","o","m">>

HostsFile == N_localhost :> <<V4(127, 0, 0, 1), V6(0, 0, 0, 0, 0, 0, 0, 1)>>

\* the records the resolver has for a name
Lookup(host, table) ==
  IF host \in DOMAIN HostsFile THEN HostsFile[host]
  ELSE IF host \in DOMAIN table THEN table[host]
  ELSE <<>>

\* the idna encoding of the name fails (UnicodeError, a ValueError): a label
\* is empty (other than a trailing one) or longer than 63 characters
IdnaFails(host) ==
  LET labels == Split(host, ".")
  IN \E i \in DOMAIN labels :
       \/ Len(labels[i]) > 63
       \/ labels[i] = <<>> /\ (i < Len(labels) \/ Len(labels) = 1)

\* socket.gethostbyname(hostname): [exc, text].  IPv4 only: a dotted-quad
\* literal answers itself, a name answers its first IPv4 record, and an IPv6
\* literal or a name without an IPv4 record raises socket.gaierror.
gethostbyname(host, table) ==
  LET lit == ip_address(host)
      v4 == SelectSeq(Lookup(host, table), LAMBDA a : a.v = 4)
  IN IF IdnaFails(host) THEN [exc |-> "ValueError", text |-> <<>>]
     ELSE IF ~lit.err THEN [exc |-> "none", text |-> FormatIPv4(lit.ip)]
     ELSE IF ":" \in Range(host) \/ v4 = <<>> THEN [exc |-> "gaierror", text |-> <<>>]
     ELSE [exc |-> "none", text |-> FormatIPv4(v4[1])]

\* the addresses the HTTP client may connect to for a host (getaddrinfo:
\* every record, of either family; a literal is its own address)
getaddrinfo(host, table) ==
  LET lit == ip_address(host)
  IN IF ~lit.err THEN {lit.ip} ELSE Range(Lookup(host, table))

(***************************************************************************)
(* is_safe_url(url): [ok, reason, resolved, checked].  ok is the return    *)
(* value, reason the branch that returned, resolved the number of          *)
(* socket.gethostbyname calls made, checked the addresses tested against   *)
(* BLOCKED_IP_RANGES.                                                      *)
(***************************************************************************)
T_http == <<"h","t","t","p">>

T_https == <<"h","t","t","p","s">>

Verdict(ok, reason, resolved, checked) ==
  [ok |-> ok, reason |-> reason, resolved |-> resolved, checked |-> checked]

\* is_safe_url returning True where name resolution raises
is_safe_url_failopen(u, table) ==
  LET parsed == urlparse(u)
      host == hostname(parsed)
      r == gethostbyname(host, table)
      a == ip_address(r.text)
  IN IF parsed.err THEN Verdict(FALSE, "error", 0, {})
     ELSE IF parsed.scheme \notin {T_http, T_https} THEN Verdict(FALSE, "scheme", 0, {})
     ELSE IF host = <<>> THEN Verdict(FALSE, "no_host", 0, {})
     ELSE IF r.exc # "none" THEN Verdict(TRUE, "ok", 1, {})
     ELSE IF a.err THEN Verdict(TRUE, "ok", 1, {})
     ELSE IF IsBlocked(a.ip) THEN Verdict(FALSE, "private", 1, {a.ip})
     ELSE Verdict(TRUE, "ok", 1, {a.ip})

is_safe_url(u, table) ==
  LET parsed == urlparse(u)
      host == hostname(parsed)
      r == gethostbyname(host, table)
      a == ip_address(r.text)
  IN IF parsed.err THEN Verdict(FALSE, "error", 0, {})
     ELSE IF parsed.scheme \notin {T_http, T_https} THEN Verdict(FALSE, "scheme", 0, {})
     ELSE IF host = <<>> THEN Verdict(FALSE, "no_host", 0, {})
     ELSE IF r.exc # "none" THEN Verdict(FALSE, "unresolvable", 1, {})
     ELSE IF a.err THEN Verdict(FALSE, "unresolvable", 1, {})
     ELSE IF IsBlocked(a.ip) THEN Verdict(FALSE, "private", 1, {a.ip})
     ELSE Verdict(TRUE, "ok", 1, {a.ip})

(***************************************************************************)
(* The inputs of the model.  A candidate URL is typed as four pieces       *)
(* (scheme, separator, authority, path) and handed to the program as their *)
(* concatenation.                                                          *)
(***************************************************************************)
T_HTTP == <<"H","T","T","P">>

T_Https == <<"H","t","t","p","s">>

T_file == <<"f","i","l","e">>

T_ftp == <<"f","t","p">>

T_javascript == <<"j","a","v","a","s","c","r","i","p","t">>

Sep_full == <<":","/","/">>

Sep_colon == <<":">>

Sep_slashes == <<"/","/">>

A_localhost == <<"l","o","c","a","l","h","o","s","t">>

A_localhost8000 == <<"l","o","c","a","l","h","o","s","t",":","8","0","0","0">>

A_127_0_0_1 == <<"1","2","7",".","0",".","0",".","1">>

A_127_0_0_2 == <<"1","2","7",".","0",".","0",".","2">>

A_v6loopback == <<"[",":",":","1","]">>

A_10_0_0_1 == <<"1","0",".","0",".","0",".","1">>

A_10_255 == <<"1","0",".","2","5","5",".","2","5","5",".","2","5","5">>

A_172_16 == <<"1","7","2",".","1","6",".","0",".","1">>

A_172_31 == <<"1","7","2",".","3","1",".","2","5","5",".","2","5","5">>

A_172_32 == <<"1","7","2",".","3","2",".","0",".","1">>

A_192_168_0 == <<"1","9","2",".","1","6","8",".","0",".","1">>

A_192_168_255 == <<"1","9","2",".","1","6","8",".","2","5","5",".","2","5","5">>

A_192_168_1_1 == <<"1","9","2",".","1","6","8",".","1",".","1">>

A_169_254 == <<"1","6","9",".","2","5","4",".","0",".","1">>

A_public == <<"9","3",".","1","8","4",".","2","1","6",".","3","4">>

A_example == <<"e","x","a","m","p","l","e",".","c","o","m">>

A_EXAMPLE == <<"E","x","a","m","p","l","e",".","C","O","M">>

A_userinfo == <<"u","s","e","r","@","e","x","a","m","p","l","e",".","c","o","m">>

A_port == <<"e","x","a","m","p","l","e",".","c","o","m",":","8","0","8","0">>

A_portonly == <<":","8","0">>

A_useronly == <<"u","s","e","r","@">>

A_unclosed == <<"[",":",":","1">>

A_emptylabel == <<"a",".",".","b">>

A_badquad == <<"9","9","9",".","1",".","1",".","1">>

P_x == <<"/","x">>

P_api == <<"/","a","p","i">>

P_health == <<"/","h","e","a","l","t","h">>

P_passwd == <<"/","e","t","c","/","p","a","s","s","w","d">>

P_alert == <<"a","l","e","r","t","(","1",")">>

\* the scheme spellings that denote http or https
HttpSpellings == {T_http, T_https, T_HTTP, T_Https}

\* the authorities that carry no host
NoHostAuths == {<<>>, A_portonly, A_useronly}

Auths ==
  { A_localhost, A_localhost8000, A_127_0_0_1, A_127_0_0_2, A_v6loopback,
    A_10_0_0_1, A_10_255, A_172_16, A_172_31, A_172_32, A_192_168_0,
    A_192_168_255, A_192_168_1_1, A_169_254, A_public, A_example, A_EXAMPLE,
    A_userinfo, A_port, A_portonly, A_useronly, A_unclosed, A_emptylabel,
    A_badquad, <<>> }

Typed(scheme, sep, auth, path) ==
  [scheme |-> scheme, sep |-> sep, auth |-> auth, path |-> path]

CandidateInputs ==
  { Typed(sc, Sep_full, a, P_x) : sc \in {T_http, T_https}, a \in Auths }
    \cup { Typed(sc, Sep_full, a, P_api) :
             sc \in HttpSpellings \cup {T_file, T_ftp, T_javascript},
             a \in {A_example, A_127_0_0_1} }
    \cup { Typed(T_http, Sep_full, A_localhost8000, P_health),
           Typed(T_file, Sep_full, <<>>, P_passwd),
           Typed(T_ftp, Sep_full, A_example, <<>>),
           Typed(T_javascript, Sep_colon, <<>>, P_alert),
           Typed(T_http, Sep_colon, A_example, P_x),
           Typed(<<>>, Sep_slashes, A_example, P_x),
           Typed(<<>>, <<>>, A_example, P_api),
           Typed(<<>>, <<>>, A_localhost8000, P_health) }

\* the URL string of a typed input
UrlOf(in) == in.scheme \o in.sep \o in.auth \o in.path

\* the addresses name resolution may answer with
PublicV4 == V4(93, 184, 216, 34)

PrivateV4 == V4(10, 0, 0, 1)

PublicV6 == V6(9734, 10240, 544, 1, 584, 6291, 9672, 6470)

AddrPool == {PublicV4, PrivateV4, PublicV6}

\* the most address records one name has
MaxAddrs == 2

\* the most redirects one fetch follows
MaxRedirects == 2

SeqsUpTo(S, n) == UNION { [1..k -> S] : k \in 0..n }

DnsStates == [{N_example} -> SeqsUpTo(AddrPool, MaxAddrs)]

\* the Location targets a server may redirect to
RedirectTargets ==
  { UrlOf(Typed(T_http, Sep_full, A_example, P_x)),
    UrlOf(Typed(T_http, Sep_full, A_127_0_0_1, P_x)),
    UrlOf(Typed(T_http, Sep_full, A_localhost8000, P_health)) }

(***************************************************************************)
(* The errors of the fetch.  The request raises one of the httpx           *)
(* exceptions; fetch_article_text's except clauses turn it into the        *)
(* ValueError it raises: "timeout" is "Request timed out after ... seconds"*)
(* and "failed" is "Failed to fetch URL: ...".                             *)
(***************************************************************************)
\* the exceptions of the request; all are httpx.HTTPError, and
\* TimeoutException is a TransportError
HttpxExceptions ==
  {"TimeoutException", "TransportError", "HTTPStatusError", "TooManyRedirects"}

\* the except clauses in the other order: except httpx.HTTPError first
FetchError_generic_first(exc) == "failed"

\* except httpx.TimeoutException, then except httpx.HTTPError
FetchError(exc) == IF exc = "TimeoutException" THEN "timeout" ELSE "failed"

(***************************************************************************)
(* HTML documents and the BeautifulSoup operations of the extraction.  A   *)
(* document is the parse tree in document order: a sequence of nodes       *)
(* [kind, depth, s], kind a tag name or "#text", depth the nesting depth   *)
(* (1 for a child of the root) and s the string of a text node.  0 stands  *)
(* for the root (the soup object) where a node index is expected.          *)
(***************************************************************************)
Elem(tag, depth) == [kind |-> tag, depth |-> depth, s |-> <<>>]

Txt(s, depth) == [kind |-> "#text", depth |-> depth, s |-> s]

NL == "\n"

Whitespace == {" ", "\n", "\t"}

SetMin(S) == CHOOSE m \in S : \A x \in S : m <= x

SetMax(S) == CHOOSE m \in S : \A x \in S : m >= x

\* str.strip()
Strip(s) ==
  LET solid == {i \in 1..Len(s) : s[i] \notin Whitespace}
  IN IF solid = {} THEN <<>> ELSE SubSeq(s, SetMin(solid), SetMax(solid))

\* the members of a set of indices, in increasing order
RECURSIVE InOrder(_)
InOrder(S) ==
  IF S = {} THEN <<>> ELSE <<SetMin(S)>> \o InOrder(S \ {SetMin(S)})

\* str.join
RECURSIVE Join(_, _)
Join(parts, sep) ==
  IF parts = <<>> THEN <<>>
  ELSE IF Len(parts) = 1 THEN parts[1]
  ELSE parts[1] \o sep \o Join(Tail(parts), sep)

\* node j lies inside element i (inside the document when i = 0)
InSubtree(d, i, j) ==
  IF i = 0 THEN j \in 1..Len(d)
  ELSE /\ j \in (i + 1)..Len(d)
       /\ \A k \in (i + 1)..j : d[k].depth > d[i].depth

\* soup(tags) followed by decompose() on each element found: the elements
\* with one of the tags are removed with everything inside them
decompose(d, tags) ==
  LET gone == {j \in 1..Len(d) :
                 \E i \in 1..j : d[i].kind \in tags /\ (i = j \/ InSubtree(d, i, j))}
      kept == InOrder((1..Len(d)) \ gone)
  IN [k \in 1..Len(kept) |-> d[kept[k]]]

\* soup.find(tag): the first element with the tag in document order; 0 is
\* None
find(d, tag) ==
  LET found == {i \in 1..Len(d) : d[i].kind = tag}
  IN IF found = {} THEN 0 ELSE SetMin(found)

\* element.find_all(tag): the elements with the tag inside the element, in
\* document order
find_all(d, c, tag) == InOrder({j \in 1..Len(d) : d[j].kind = tag /\ InSubtree(d, c, j)})

\* element.get_text(separator, strip=True): the strings inside the element,
\* each stripped, the empty ones dropped, joined by the separator
get_text(d, c, sep) ==
  LET at == InOrder({j \in 1..Len(d) : d[j].kind = "#text" /\ InSubtree(d, c, j)})
      stripped == [k \in 1..Len(at) |-> Strip(d[at[k]].s)]
  IN Join(SelectSeq(stripped, LAMBDA t : t # <<>>), sep)

(***************************************************************************)
(* The extraction of fetch_article_text.  The readability library is       *)
(* outside the program: rd is what it did, [raised, title, content]:       *)
(* raised when Document(html), title() or summary() raised, otherwise the  *)
(* title and the summary markup it returned.                               *)
(***************************************************************************)
\* the elements the basic extraction removes
REMOVED_TAGS == {"script", "style", "nav", "footer", "header"}

NoReadability == [raised |-> FALSE, title |-> <<>>, content |-> <<>>]

\* the readability tier putting the title line in whether or not there is a
\* title
ReadabilityTier_always_title(r) ==
  r.title \o <<NL, NL>> \o get_text(r.content, 0, <<NL>>)

\* the readability tier: the text of the summary, under the title if there
\* is one
ReadabilityTier(r) ==
  LET body == get_text(r.content, 0, <<NL>>)
  IN IF r.title # <<>> THEN r.title \o <<NL, NL>> \o body ELSE body

\* article = soup.find('article') or soup.find('main') or soup, main first
Container_main_first(soup) ==
  IF find(soup, "main") # 0 THEN find(soup, "main")
  ELSE IF find(soup, "article") # 0 THEN find(soup, "article")
  ELSE 0

\* article = soup.find('article') or soup.find('main') or soup
Container(soup) ==
  IF find(soup, "article") # 0 THEN find(soup, "article")
  ELSE IF find(soup, "main") # 0 THEN find(soup, "main")
  ELSE 0

\* the paragraph tier: the texts of the paragraphs of the container, the
\* empty ones dropped, joined by newlines
ParagraphTier(soup) ==
  LET paragraphs == find_all(soup, Container(soup), "p")
      texts == [k \in 1..Len(paragraphs) |-> get_text(soup, paragraphs[k], <<>>)]
  IN Join(SelectSeq(texts, LAMBDA t : t # <<>>), <<NL>>)

\* the basic extraction never falling through to the whole document
BasicExtraction_paragraphs_only(html) ==
  ParagraphTier(decompose(html, REMOVED_TAGS))

\* the basic extraction (the except branch): removal of the unwanted
\* elements, the paragraph tier and, when its text is empty, the text of the
\* whole remaining document
BasicExtraction(html) ==
  LET soup == decompose(html, REMOVED_TAGS)
      paragraphText == ParagraphTier(soup)
  IN IF paragraphText = <<>> THEN get_text(soup, 0, <<NL>>) ELSE paragraphText

\* the extraction falling back whenever the readability text is empty too
extract_text_fallback_on_empty(html, r) ==
  IF r.raised \/ ReadabilityTier(r) = <<>>
    THEN BasicExtraction(html) ELSE ReadabilityTier(r)

\* the text fetch_article_text returns for the markup html
extract_text(html, r) ==
  IF r.raised THEN BasicExtraction(html) ELSE ReadabilityTier(r)

(***************************************************************************)
(* The markup the model extracts from: every well-formed tree of up to     *)
(* MaxNodes nodes over DocTags and DocStrings, and a few larger ones.      *)
(***************************************************************************)
DocTags == {"article", "main", "p", "nav"}

S_a == <<"a">>

S_b == <<" ", "b", " ">>

S_blank == <<" ">>

DocStrings == {S_a, S_b, S_blank}

\* the largest number of nodes of a generated document
MaxNodes == 3

DocNodes ==
  { Elem(t, k) : t \in DocTags, k \in 1..MaxNodes }
    \cup { Txt(str, k) : str \in DocStrings, k \in 1..MaxNodes }

\* a sequence of nodes that is the document order of a tree the parser can
\* build: the first node is a child of the root, a node is at most one level
\* deeper than the element before it, a string has no children, and two
\* strings are never adjacent siblings (the parser gives one string)
WellFormed(d) ==
  /\ Len(d) > 0 => d[1].depth = 1
  /\ \A i \in 1..(Len(d) - 1) :
       /\ d[i + 1].depth <= d[i].depth + (IF d[i].kind = "#text" THEN 0 ELSE 1)
       /\ ~(d[i].kind = "#text" /\ d[i + 1].kind = "#text" /\ d[i].depth = d[i + 1].depth)

GeneratedDocs ==
  { d \in UNION { [1..n -> DocNodes] : n \in 0..MaxNodes } : WellFormed(d) }

\* <article><p>a</p><p> b </p></article>
D_article == <<Elem("article", 1), Elem("p", 2), Txt(S_a, 3), Elem("p", 2), Txt(S_b, 3)>>

\* <script>a</script><header> b </header><div><p>a<b> b </b></p></div><footer>a</footer>
D_chrome ==
  <<Elem("script", 1), Txt(S_a, 2), Elem("header", 1), Txt(S_b, 2), Elem("div", 1),
    Elem("p", 2), Txt(S_a, 3), Elem("b", 3), Txt(S_b, 4), Elem("footer", 1), Txt(S_a, 2)>>

\* <style>a</style><div>a<span> b </span></div><nav><p>a</p></nav>
D_flat ==
  <<Elem("style", 1), Txt(S_a, 2), Elem("div", 1), Txt(S_a, 2), Elem("span", 2),
    Txt(S_b, 3), Elem("nav", 1), Elem("p", 2), Txt(S_a, 3)>>

\* <p> b </p><main><p> b </p></main><article><p>a</p><p> </p></article>
D_both ==
  <<Elem("p", 1), Txt(S_b, 2), Elem("main", 1), Elem("p", 2), Txt(S_b, 3),
    Elem("article", 1), Elem("p", 2), Txt(S_a, 3), Elem("p", 2), Txt(S_blank, 3)>>

Docs == GeneratedDocs \cup {D_article, D_chrome, D_flat, D_both}

\* what the readability tier can do: raise, or return a title (possibly
\* empty) and a summary (possibly without text)
ReadabilityResults ==
  { [raised |-> TRUE, title |-> <<>>, content |-> <<>>] }
    \cup { [raised |-> FALSE, title |-> t, content |-> c] :
             t \in {<<>>, <<"T">>},
             c \in {<<>>, <<Elem("p", 1), Txt(S_b, 2)>>} }

\* the pages the servers of the fetch model answer with
PageDocs == {<<>>, D_article}

(***************************************************************************)
(* The HTTP API (app/routes.py): requests, responses and rows.  A request  *)
(* is [id, limit, offset, source_type, fetch, mode, text, fault, scorer]:  *)
(* the fields the operation does not take are left at their values in      *)
(* NoRequest; fetch is what fetch_article_text or the OCR did, text the    *)
(* text analysed, fault whether the analysis or the database raised an     *)
(* exception the handler does not expect while serving the request, scorer *)
(* the function that produced the sentiment of the analysis stored.  A     *)
(* response is [op, req, status, detail, id, source_type, total, limit,    *)
(* offset, ids]: ids are the analysis_id of the analyses of a list.  A row *)
(* of the analyses table is [id, created_at, source_type, mode,            *)
(* model_version, result], result the keys of the stored JSON object.      *)
(***************************************************************************)
NoRequest ==
  [id |-> 0, limit |-> 0, offset |-> 0, source_type |-> "", fetch |-> "",
   mode |-> "", text |-> <<>>, fault |-> FALSE, scorer |-> ""]

NoResponse ==
  [op |-> "none", req |-> NoRequest, status |-> 0, detail |-> "", id |-> 0,
   source_type |-> "", total |-> 0, limit |-> 0, offset |-> 0, ids |-> <<>>]

\* a response that carries an error
Failure(op, req, status, detail) ==
  [NoResponse EXCEPT !.op = op, !.req = req, !.status = status, !.detail = detail]

\* the AnalysisResponse of a row
Created(op, req, rec) ==
  [NoResponse EXCEPT !.op = op, !.req = req, !.status = 200, !.id = rec.id,
                     !.source_type = rec.source_type]

\* the keys of the dictionary analyze_text returns
ANALYSIS_KEYS == {"word_count", "sentiment", "keywords", "top_words"}

\* the keys of result_dict of analyze_literary_endpoint
LITERARY_KEYS == {"literary_insights"}

\* the least length of the stripped text the url and image endpoints accept
MinTextLen == 10

\* the least length of text analyze_literary_text accepts
LiteraryMinLen == 200

\* the bounds of the query parameter limit
LimitMin == 1

LimitMax == 100

Chars(n) == [i \in 1..n |-> "x"]

\* str(e) of the ValueError of fetch_article_text
ValueErrorDetail(e) ==
  IF e = "blocked" THEN "URL blocked for security reasons"
  ELSE IF e = "timeout" THEN "Request timed out"
  ELSE "Failed to fetch URL"

\* the fields of the analyses of a page that the response is built from
PageReadable(page) == \A i \in 1..Len(page) : "sentiment" \in page[i].result

\* query.order_by(AnalysisRecord.created_at.desc())
OrderByCreatedDesc(rows) ==
  [k \in 1..Len(rows) |->
     CHOOSE r \in Range(rows) :
       Cardinality({q \in Range(rows) : q.created_at > r.created_at}) = k - 1]

\* .offset(offset).limit(limit)
OffsetLimit(rows, offset, limit) ==
  SubSeq(rows, offset + 1, IF offset + limit < Len(rows) THEN offset + limit ELSE Len(rows))

(***************************************************************************)
(* The requests of the API model.                                          *)
(***************************************************************************)
\* the largest number of rows the model stores
MaxRecords == 2

AnalysisModes == {"fast", "smart"}

\* the form field mode of the image endpoint is any string
ImageModes == {"fast", "turbo"}

\* what fetch_article_text does for the url endpoint: it raises one of its
\* ValueErrors or returns a text
FetchResults ==
  { [error |-> e, text |-> <<>>] : e \in {"blocked", "timeout", "failed"} }
    \cup { [error |-> "none", text |-> t] :
             t \in {<<>>, <<" ">> \o Chars(MinTextLen - 1) \o <<NL>>, Chars(MinTextLen)} }

\* what the OCR does for the image endpoint
OcrResults ==
  { [error |-> "ocr", text |-> <<>>] }
    \cup { [error |-> "none", text |-> t] : t \in {<<>>, Chars(MinTextLen)} }

LiteraryTexts == {Chars(1), Chars(LiteraryMinLen - 1), Chars(LiteraryMinLen)}

SourceFilters == {"", "text", "url", "image"}

Limits == {LimitMin - 1, LimitMin, LimitMax, LimitMax + 1}

Offsets == {-1, 0, 1}

(***************************************************************************)
(* State.                                                                  *)
(*   input, url    the typed candidate and the string fetch_article_text   *)
(*                 is called with                                          *)
(*   dns           the resolver's current answers                          *)
(*   pc            where the call is: "called", "fetch" (about to send the *)
(*                 request of the current hop), "await" (request sent),    *)
(*                 "extract" (response.text obtained), "returned" (the     *)
(*                 extracted text returned), "raised"                      *)
(*   gateLog       the is_safe_url calls of this call: [url, verdict]      *)
(*   resolveCalls  socket.gethostbyname calls made by is_safe_url          *)
(*   fetched       the URLs client.get was called with                     *)
(*   target, hops  the URL of the current hop, the redirects followed      *)
(*   connected     the connection of the current hop, once opened:         *)
(*                 <<[url, addr]>>                                         *)
(*   httpExc       the httpx exception raised inside the with block:       *)
(*                 "none" or a member of HttpxExceptions                   *)
(*   error         the ValueError raised: "none", "blocked", "timeout",    *)
(*                 "failed"                                                *)
(*   doc           response.text, as the tree the HTML parser builds       *)
(*   rd            what the readability tier did with it                   *)
(*   text          the text fetch_article_text returns (pc = "returned")   *)
(*   addr, blocked the input and the result ("unset", "blocked",           *)
(*                 "not_blocked") of the address check when it is          *)
(*                 exercised on its own                                    *)
(*   store, resp   the analyses table, oldest row first, and the response  *)
(*                 of the last API request                                 *)
(*   ranges        (declared with the table) the module's list             *)
(*                 BLOCKED_IP_RANGES                                       *)
(*   calls         the calls of is_safe_url that run side by side, when    *)
(*                 their loops over the list are followed entry by entry:  *)
(*                 [addr, k, blocked], the address checked, the position   *)
(*                 of the loop and its result                              *)
(*   SMART_MODE_AVAILABLE  whether the import of app/services/sentiment.py *)
(*                 loaded the transformer pipeline                         *)
(***************************************************************************)
VARIABLES input, url, dns, pc, gateLog, resolveCalls, fetched, target, hops,
          connected, httpExc, error, doc, rd, text, addr, blocked, store, resp,
          calls, SMART_MODE_AVAILABLE

vars == <<input, url, dns, pc, gateLog, resolveCalls, fetched, target, hops,
          connected, httpExc, error, doc, rd, text, addr, blocked, store, resp,
          ranges, calls, SMART_MODE_AVAILABLE>>

fetchVars == <<input, url, dns, pc, gateLog, resolveCalls, fetched, target, hops,
               connected, error>>

extractVars == <<doc, rd, text>>

apiVars == <<store, resp>>

\* the objects of the modules and the calls that run side by side
sharedVars == <<ranges, calls, SMART_MODE_AVAILABLE>>

Init ==
  /\ ranges = BLOCKED_IP_RANGES
  /\ SMART_MODE_AVAILABLE = FALSE
  /\ calls = <<>>
  /\ input \in CandidateInputs
  /\ url = UrlOf(input)
  /\ dns \in DnsStates
  /\ pc = "called"
  /\ gateLog = <<>>
  /\ resolveCalls = 0
  /\ fetched = <<>>
  /\ target = <<>>
  /\ hops = 0
  /\ connected = <<>>
  /\ httpExc = "none"
  /\ error = "none"
  /\ doc = <<>>
  /\ rd = NoReadability
  /\ text = <<>>
  /\ addr = PublicV4
  /\ blocked = "unset"
  /\ store = <<>>
  /\ resp = NoResponse

\* fetch_article_text going on to the fetch whatever is_safe_url returned
CheckUrl_unguarded ==
  /\ pc = "called"
  /\ LET v == is_safe_url(url, dns)
     IN /\ gateLog' = Append(gateLog, [url |-> url, verdict |-> v])
        /\ resolveCalls' = resolveCalls + v.resolved
  /\ pc' = "fetch"
  /\ target' = url
  /\ UNCHANGED <<input, url, dns, fetched, hops, connected, httpExc, error, addr, blocked>>
  /\ UNCHANGED <<extractVars, apiVars>>
  /\ UNCHANGED sharedVars

\* fetch_article_text, the SSRF protection: is_safe_url(url), and the
\* ValueError when it returns False
CheckUrl ==
  /\ pc = "called"
  /\ LET v == is_safe_url(url, dns)
     IN /\ gateLog' = Append(gateLog, [url |-> url, verdict |-> v])
        /\ resolveCalls' = resolveCalls + v.resolved
        /\ IF v.ok
             THEN /\ pc' = "fetch"
                  /\ target' = url
                  /\ error' = error
             ELSE /\ pc' = "raised"
                  /\ error' = "blocked"
                  /\ target' = target
  /\ UNCHANGED <<input, url, dns, fetched, hops, connected, httpExc, addr, blocked>>
  /\ UNCHANGED <<extractVars, apiVars>>
  /\ UNCHANGED sharedVars

\* client.get(url) called again when the connection times out
Connect_retrying ==
  /\ pc = "fetch"
  /\ fetched' = IF hops = 0 THEN Append(fetched, target) ELSE fetched
  /\ LET addrs == getaddrinfo(hostname(urlparse(target)), dns)
     IN IF addrs = {}
          THEN /\ httpExc' = "TransportError"
               /\ pc' = "raised"
               /\ error' = FetchError("TransportError")
               /\ UNCHANGED connected
          ELSE \/ /\ \E a \in addrs :
                       connected' = <<[url |-> target, addr |-> a]>>
                  /\ pc' = "await"
                  /\ UNCHANGED <<httpExc, error>>
               \/ /\ pc' = "fetch"
                  /\ UNCHANGED <<httpExc, error, connected>>
  /\ UNCHANGED <<input, url, dns, gateLog, resolveCalls, target, hops, addr, blocked>>
  /\ UNCHANGED <<extractVars, apiVars>>
  /\ UNCHANGED sharedVars

\* client.get(url) is called (hop 0) or follows a redirect (later hops): the
\* HTTP client sends the request of the current hop; it resolves the host of
\* the hop's URL itself and connects to one of the addresses, unless the
\* resolution or the connection fails (ConnectError, a TransportError) or
\* the connection times out (ConnectTimeout, a TimeoutException)
Connect ==
  /\ pc = "fetch"
  /\ fetched' = IF hops = 0 THEN Append(fetched, target) ELSE fetched
  /\ LET addrs == getaddrinfo(hostname(urlparse(target)), dns)
     IN IF addrs = {}
          THEN /\ httpExc' = "TransportError"
               /\ pc' = "raised"
               /\ error' = FetchError("TransportError")
               /\ UNCHANGED connected
          ELSE \/ /\ \E a \in addrs :
                       connected' = <<[url |-> target, addr |-> a]>>
                  /\ pc' = "await"
                  /\ UNCHANGED <<httpExc, error>>
               \/ /\ httpExc' = "TimeoutException"
                  /\ pc' = "raised"
                  /\ error' = FetchError("TimeoutException")
                  /\ UNCHANGED connected
  /\ UNCHANGED <<input, url, dns, gateLog, resolveCalls, target, hops, addr, blocked>>
  /\ UNCHANGED <<extractVars, apiVars>>
  /\ UNCHANGED sharedVars

\* the response of the hop: a success (html = response.text), a redirect
\* (followed, up to the client's limit, beyond it TooManyRedirects), a
\* timeout, a connection or protocol failure, or a non-success status that
\* raise_for_status() raises; fetch_article_text turns the exception into
\* ValueError
Respond ==
  /\ pc = "await"
  /\ \/ /\ pc' = "extract"
        /\ doc' \in PageDocs
        /\ UNCHANGED <<target, hops, httpExc, error, connected>>
     \/ /\ hops < MaxRedirects
        /\ \E loc \in RedirectTargets : target' = loc
        /\ hops' = hops + 1
        /\ pc' = "fetch"
        /\ connected' = <<>>
        /\ UNCHANGED <<httpExc, error, doc>>
     \/ /\ hops >= MaxRedirects
        /\ httpExc' = "TooManyRedirects"
        /\ pc' = "raised"
        /\ error' = FetchError("TooManyRedirects")
        /\ UNCHANGED <<target, hops, connected, doc>>
     \/ /\ \E exc \in {"TimeoutException", "TransportError", "HTTPStatusError"} :
             /\ httpExc' = exc
             /\ error' = FetchError(exc)
        /\ pc' = "raised"
        /\ UNCHANGED <<target, hops, connected, doc>>
  /\ UNCHANGED <<input, url, dns, gateLog, resolveCalls, fetched, addr, blocked>>
  /\ UNCHANGED <<rd, text, apiVars>>
  /\ UNCHANGED sharedVars

\* the extraction: the readability tier, the basic extraction when it
\* raises, and the return of the text
Extract ==
  /\ pc = "extract"
  /\ \E r \in ReadabilityResults :
       /\ rd' = r
       /\ text' = extract_text(doc, r)
  /\ pc' = "returned"
  /\ UNCHANGED <<input, url, dns, gateLog, resolveCalls, fetched, target, hops,
                 connected, httpExc, error, doc, addr, blocked, apiVars>>
  /\ UNCHANGED sharedVars

\* the environment: the answer of name resolution changes between the check
\* of is_safe_url and the request of a hop
DnsChange ==
  /\ pc = "fetch"
  /\ dns' \in DnsStates \ {dns}
  /\ UNCHANGED <<input, url, pc, gateLog, resolveCalls, fetched, target, hops,
                 connected, httpExc, error, addr, blocked>>
  /\ UNCHANGED <<extractVars, apiVars>>
  /\ UNCHANGED sharedVars

Next == CheckUrl \/ Connect \/ Respond \/ Extract \/ DnsChange

Spec == Init /\ [][Next]_vars

\* socket.gethostbyname(hostname) has to ask the resolver: is_safe_url
\* reaches the call, and the host is a name that is neither an address
\* literal nor an entry of the hosts file
WaitsForResolver(u) ==
  LET parsed == urlparse(u)
      host == hostname(parsed)
  IN /\ ~parsed.err
     /\ parsed.scheme \in {T_http, T_https}
     /\ host # <<>>
     /\ ~IdnaFails(host)
     /\ ip_address(host).err
     /\ ":" \notin Range(host)
     /\ host \notin DOMAIN HostsFile

\* the calls the termination of fetch_article_text is examined on: those
\* whose check waits for the resolver
InitFair == Init /\ WaitsForResolver(url)

\* a step of Connect, told by pc: Connect is enabled whenever pc is "fetch",
\* and it is the one step that leaves "fetch"
ConnectEnds == pc = "fetch" /\ pc' \in {"await", "raised"}

\* The steps fetch_article_text is sure to take.  The with block of
\* httpx.Client(timeout=timeout) bounds the wait for the connection and for
\* the response of every hop, and the hops are limited; the extraction only
\* computes.  The call socket.gethostbyname(hostname) of is_safe_url is made
\* with no timeout: it returns when the resolver answers, so the step
\* CheckUrl of a call that waits for the resolver is not sure to be taken.
FairSpec ==
  /\ InitFair
  /\ [][Next]_vars
  /\ WF_pc(ConnectEnds)
  /\ WF_vars(Respond)
  /\ WF_vars(Extract)

(***************************************************************************)
(* The address check on its own: every address of AddrInputs, of either    *)
(* family, is put through the loop over BLOCKED_IP_RANGES.                 *)
(***************************************************************************)
FirstOctets == {9, 10, 11, 126, 127, 128, 168, 169, 170, 171, 172, 173, 191, 192, 193}

SecondOctets == {0, 15, 16, 31, 32, 167, 168, 169, 253, 254, 255}

FirstGroups ==
  {0, 1, 9734, 64511, 64512, 65023, 65024, 65151, 65152, 65215, 65216, 65535}

\* the IPv4 addresses embedded in the IPv4-mapped inputs (::ffff:a.b.c.d)
MappedV4 ==
  { V4(127, 0, 0, 1), V4(10, 0, 0, 1), V4(172, 16, 0, 1), V4(192, 168, 0, 1),
    V4(169, 254, 0, 1), V4(93, 184, 216, 34) }

\* ::ffff:a.b.c.d
Mapped(ip) ==
  V6(0, 0, 0, 0, 0, 65535, ip.b[1] * 256 + ip.b[2], ip.b[3] * 256 + ip.b[4])

AddrInputs ==
  { V4(a, b, c, d) : a \in FirstOctets, b \in SecondOctets, c \in {0, 255}, d \in {1, 255} }
    \cup { V6(g, h, 0, 0, 0, 0, 0, l) : g \in FirstGroups, h \in {0, 65535}, l \in {0, 1, 2} }
    \cup { Mapped(ip) : ip \in MappedV4 }

InitClassify ==
  /\ ranges = BLOCKED_IP_RANGES
  /\ SMART_MODE_AVAILABLE = FALSE
  /\ calls = <<>>
  /\ addr \in AddrInputs
  /\ blocked = "unset"
  /\ input = Typed(T_http, Sep_full, A_example, P_x)
  /\ url = UrlOf(input)
  /\ dns = [n \in {N_example} |-> <<>>]
  /\ pc = "idle"
  /\ gateLog = <<>>
  /\ resolveCalls = 0
  /\ fetched = <<>>
  /\ target = <<>>
  /\ hops = 0
  /\ connected = <<>>
  /\ httpExc = "none"
  /\ error = "none"
  /\ doc = <<>>
  /\ rd = NoReadability
  /\ text = <<>>
  /\ store = <<>>
  /\ resp = NoResponse

\* is_safe_url, the check of ip_obj against BLOCKED_IP_RANGES
Classify ==
  /\ blocked = "unset"
  /\ blocked' = IF IsBlocked(addr) THEN "blocked" ELSE "not_blocked"
  /\ UNCHANGED <<addr, fetchVars, httpExc, extractVars, apiVars>>
  /\ UNCHANGED sharedVars

NextClassify == Classify

SpecClassify == InitClassify /\ [][NextClassify]_vars

(***************************************************************************)
(* Calls of is_safe_url side by side: each call of calls checks its        *)
(* resolved address against the list, and the steps of the loops, one      *)
(* entry of the list each, interleave.                                     *)
(***************************************************************************)
\* the number of calls that run side by side
MaxRequests == 2

Requests == 1..MaxRequests

\* the resolved addresses of the calls: one in the first range of the list,
\* one in the fifth, one in the last and one in none
SharedAddrs ==
  { V4(127, 0, 0, 1), V4(169, 254, 169, 254), V6(65152, 0, 0, 0, 0, 0, 0, 1), PublicV4 }

InitShared ==
  /\ ranges = BLOCKED_IP_RANGES
  /\ SMART_MODE_AVAILABLE = FALSE
  /\ calls \in [Requests -> { [addr |-> a, k |-> 1, blocked |-> "unset"] : a \in SharedAddrs }]
  /\ addr = PublicV4
  /\ blocked = "unset"
  /\ input = Typed(T_http, Sep_full, A_example, P_x)
  /\ url = UrlOf(input)
  /\ dns = [n \in {N_example} |-> <<>>]
  /\ pc = "idle"
  /\ gateLog = <<>>
  /\ resolveCalls = 0
  /\ fetched = <<>>
  /\ target = <<>>
  /\ hops = 0
  /\ connected = <<>>
  /\ httpExc = "none"
  /\ error = "none"
  /\ doc = <<>>
  /\ rd = NoReadability
  /\ text = <<>>
  /\ store = <<>>
  /\ resp = NoResponse

\* the loop of is_safe_url taking the entries out of the list as it goes
CheckRange_popping(r) ==
  /\ calls[r].blocked = "unset"
  /\ IF ranges = <<>>
       THEN /\ calls' = [calls EXCEPT ![r].blocked = "not_blocked"]
            /\ ranges' = ranges
     ELSE IF InNetwork(calls[r].addr, Head(ranges))
       THEN /\ calls' = [calls EXCEPT ![r].blocked = "blocked"]
            /\ ranges' = ranges
     ELSE /\ calls' = [calls EXCEPT ![r].k = @ + 1]
          /\ ranges' = Tail(ranges)
  /\ UNCHANGED <<addr, blocked, fetchVars, httpExc, extractVars, apiVars>>
  /\ UNCHANGED SMART_MODE_AVAILABLE

\* is_safe_url, one turn of "for blocked_range in BLOCKED_IP_RANGES": the
\* iterator reads the entry at its position; the call returns False when
\* ip_obj is in it, goes on to the next entry otherwise, and leaves the loop
\* when the list is exhausted
CheckRange(r) ==
  /\ calls[r].blocked = "unset"
  /\ IF calls[r].k > Len(ranges)
       THEN calls' = [calls EXCEPT ![r].blocked = "not_blocked"]
     ELSE IF InNetwork(calls[r].addr, ranges[calls[r].k])
       THEN calls' = [calls EXCEPT ![r].blocked = "blocked"]
     ELSE calls' = [calls EXCEPT ![r].k = @ + 1]
  /\ UNCHANGED <<ranges, addr, blocked, fetchVars, httpExc, extractVars, apiVars>>
  /\ UNCHANGED SMART_MODE_AVAILABLE

NextShared == \E r \in Requests : CheckRange(r)

SpecShared == InitShared /\ [][NextShared]_vars

(***************************************************************************)
(* The extraction on its own: every document of Docs is put through        *)
(* Extract.                                                                *)
(***************************************************************************)
InitExtract ==
  /\ ranges = BLOCKED_IP_RANGES
  /\ SMART_MODE_AVAILABLE = FALSE
  /\ calls = <<>>
  /\ doc \in Docs
  /\ rd = NoReadability
  /\ text = <<>>
  /\ pc = "extract"
  /\ input = Typed(T_http, Sep_full, A_example, P_x)
  /\ url = UrlOf(input)
  /\ dns = [n \in {N_example} |-> <<PublicV4>>]
  /\ gateLog = <<[url |-> url, verdict |-> is_safe_url(url, dns)]>>
  /\ resolveCalls = 1
  /\ fetched = <<url>>
  /\ target = url
  /\ hops = 0
  /\ connected = <<[url |-> url, addr |-> PublicV4]>>
  /\ httpExc = "none"
  /\ error = "none"
  /\ addr = PublicV4
  /\ blocked = "unset"
  /\ store = <<>>
  /\ resp = NoResponse

NextExtract == Extract

SpecExtract == InitExtract /\ [][NextExtract]_vars

(***************************************************************************)
(* The API: create, get and list requests against the analyses table.     *)
(* The handlers are coroutines of one event loop and none of them awaits   *)
(* between its first and its last statement, so a handler runs from        *)
(* request to response as one step; the url handler is two steps, the call *)
(* of fetch_article_text and its return, and pc is "fetching" between      *)
(* them: the thread of the event loop is inside fetch_article_text.        *)
(***************************************************************************)
InitApi ==
  /\ ranges = BLOCKED_IP_RANGES
  /\ SMART_MODE_AVAILABLE \in BOOLEAN
  /\ calls = <<>>
  /\ store = <<>>
  /\ resp = NoResponse
  /\ pc = "idle"
  /\ input = Typed(T_http, Sep_full, A_example, P_x)
  /\ url = UrlOf(input)
  /\ dns = [n \in {N_example} |-> <<>>]
  /\ gateLog = <<>>
  /\ resolveCalls = 0
  /\ fetched = <<>>
  /\ target = <<>>
  /\ hops = 0
  /\ connected = <<>>
  /\ httpExc = "none"
  /\ error = "none"
  /\ doc = <<>>
  /\ rd = NoReadability
  /\ text = <<>>
  /\ addr = PublicV4
  /\ blocked = "unset"

\* get_model_info(mode)
get_model_info(mode) ==
  IF mode = "smart" /\ SMART_MODE_AVAILABLE
    THEN "distilbert-base-uncased-finetuned-sst-2-english"
    ELSE "VADER (vaderSentiment)"

\* what smart_sentiment_pipeline(text) may do when analyze_sentiment(text,
\* mode) calls it (TRUE: it raises); it is called in smart mode only, and
\* only when the pipeline was loaded
PipelineRaises(mode) ==
  IF mode = "smart" /\ SMART_MODE_AVAILABLE THEN BOOLEAN ELSE {FALSE}

\* analyze_sentiment(text, mode), the function that produces the result:
\* analyze_sentiment_smart falls back to analyze_sentiment_fast when the
\* pipeline was not loaded and when it raises
analyze_sentiment(mode, raised) ==
  IF mode # "smart" THEN "analyze_sentiment_fast"
  ELSE IF ~SMART_MODE_AVAILABLE THEN "analyze_sentiment_fast"
  ELSE IF raised THEN "analyze_sentiment_fast"
  ELSE "analyze_sentiment_smart"

\* AnalysisRecord(...) with one id for every row
Record_fixed_id(source_type, mode, model_version, result) ==
  [id |-> 1, created_at |-> Len(store) + 1, source_type |-> source_type,
   mode |-> mode, model_version |-> model_version, result |-> result]

\* AnalysisRecord(...): the id and created_at defaults give a fresh id and
\* the time of the insert
Record(source_type, mode, model_version, result) ==
  [id |-> Len(store) + 1, created_at |-> Len(store) + 1, source_type |-> source_type,
   mode |-> mode, model_version |-> model_version, result |-> result]

\* POST /v1/analyze/text
analyze_text_endpoint ==
  /\ pc = "idle"
  /\ Len(store) < MaxRecords
  /\ \E mode \in AnalysisModes, raises \in BOOLEAN :
     \E p \in PipelineRaises(mode) :
       LET req == [NoRequest EXCEPT !.mode = mode]
           rec == Record("text", mode, get_model_info(mode), ANALYSIS_KEYS)
       IN IF raises
            THEN /\ resp' = Failure("analyze_text", [req EXCEPT !.fault = TRUE], 500,
                                    "Analysis failed")
                 /\ store' = store
            ELSE /\ store' = Append(store, rec)
                 /\ resp' = Created("analyze_text",
                               [req EXCEPT !.scorer = analyze_sentiment(mode, p)], rec)
  /\ UNCHANGED <<fetchVars, httpExc, extractVars, addr, blocked>>
  /\ UNCHANGED sharedVars

\* POST /v1/analyze/url, up to the call of fetch_article_text: the handler
\* is a coroutine and fetch_article_text a blocking function (gethostbyname,
\* httpx.Client), called without await on the thread of the event loop
call_fetch_article_text ==
  /\ pc = "idle"
  /\ Len(store) < MaxRecords
  /\ pc' = "fetching"
  /\ UNCHANGED <<input, url, dns, gateLog, resolveCalls, fetched, target, hops,
                 connected, error>>
  /\ UNCHANGED <<httpExc, extractVars, addr, blocked, apiVars>>
  /\ UNCHANGED sharedVars

\* POST /v1/analyze/url adding the row before it looks at the text
analyze_url_endpoint_stores_first ==
  /\ pc = "fetching"
  /\ pc' = "idle"
  /\ \E f \in FetchResults, mode \in AnalysisModes, raises \in BOOLEAN :
     \E p \in PipelineRaises(mode) :
       LET req == [NoRequest EXCEPT !.fetch = f.error, !.text = f.text, !.mode = mode]
           rec == Record("url", mode, get_model_info(mode), ANALYSIS_KEYS)
       IN IF f.error # "none"
            THEN /\ resp' = Failure("analyze_url", req, 400, ValueErrorDetail(f.error))
                 /\ store' = store
          ELSE IF f.text = <<>> \/ Len(Strip(f.text)) < MinTextLen
            THEN /\ resp' = Failure("analyze_url", req, 500,
                                    "Analysis failed: 400: Could not extract meaningful text from URL")
                 /\ store' = Append(store, rec)
          ELSE IF raises
            THEN /\ resp' = Failure("analyze_url", [req EXCEPT !.fault = TRUE], 500,
                                    "Analysis failed")
                 /\ store' = Append(store, rec)
          ELSE /\ store' = Append(store, rec)
               /\ resp' = Created("analyze_url",
                               [req EXCEPT !.scorer = analyze_sentiment(mode, p)], rec)
  /\ UNCHANGED <<input, url, dns, gateLog, resolveCalls, fetched, target, hops,
                 connected, error>>
  /\ UNCHANGED <<httpExc, extractVars, addr, blocked>>
  /\ UNCHANGED sharedVars

\* POST /v1/analyze/url, from the return of fetch_article_text: its
\* ValueError becomes a 400; the HTTPException raised for too little text is
\* caught by except Exception and becomes a 500
analyze_url_endpoint ==
  /\ pc = "fetching"
  /\ pc' = "idle"
  /\ \E f \in FetchResults, mode \in AnalysisModes, raises \in BOOLEAN :
     \E p \in PipelineRaises(mode) :
       LET req == [NoRequest EXCEPT !.fetch = f.error, !.text = f.text, !.mode = mode]
           rec == Record("url", mode, get_model_info(mode), ANALYSIS_KEYS)
       IN IF f.error # "none"
            THEN /\ resp' = Failure("analyze_url", req, 400, ValueErrorDetail(f.error))
                 /\ store' = store
          ELSE IF f.text = <<>> \/ Len(Strip(f.text)) < MinTextLen
            THEN /\ resp' = Failure("analyze_url", req, 500,
                                    "Analysis failed: 400: Could not extract meaningful text from URL")
                 /\ store' = store
          ELSE IF raises
            THEN /\ resp' = Failure("analyze_url", [req EXCEPT !.fault = TRUE], 500,
                                    "Analysis failed")
                 /\ store' = store
          ELSE /\ store' = Append(store, rec)
               /\ resp' = Created("analyze_url",
                               [req EXCEPT !.scorer = analyze_sentiment(mode, p)], rec)
  /\ UNCHANGED <<input, url, dns, gateLog, resolveCalls, fetched, target, hops,
                 connected, error>>
  /\ UNCHANGED <<httpExc, extractVars, addr, blocked>>
  /\ UNCHANGED sharedVars

\* POST /v1/analyze/image
analyze_image_endpoint ==
  /\ pc = "idle"
  /\ Len(store) < MaxRecords
  /\ \E o \in OcrResults, mode \in ImageModes, raises \in BOOLEAN :
     \E p \in PipelineRaises(mode) :
       LET req == [NoRequest EXCEPT !.fetch = o.error, !.text = o.text, !.mode = mode]
           rec == Record("image", mode, get_model_info(mode), ANALYSIS_KEYS)
       IN IF o.error # "none"
            THEN /\ resp' = Failure("analyze_image", req, 500, "OCR processing failed")
                 /\ store' = store
          ELSE IF o.text = <<>> \/ Len(Strip(o.text)) < MinTextLen
            THEN /\ resp' = Failure("analyze_image", req, 400,
                                    "Could not extract meaningful text from image")
                 /\ store' = store
          ELSE IF raises
            THEN /\ resp' = Failure("analyze_image", [req EXCEPT !.fault = TRUE], 500,
                                    "Analysis failed")
                 /\ store' = store
          ELSE /\ store' = Append(store, rec)
               /\ resp' = Created("analyze_image",
                               [req EXCEPT !.scorer = analyze_sentiment(mode, p)], rec)
  /\ UNCHANGED <<fetchVars, httpExc, extractVars, addr, blocked>>
  /\ UNCHANGED sharedVars

\* POST /v1/analyze/literary without the length check of
\* analyze_literary_text
analyze_literary_endpoint_any_length ==
  /\ pc = "idle"
  /\ Len(store) < MaxRecords
  /\ \E t \in LiteraryTexts, raises \in BOOLEAN :
       LET req == [NoRequest EXCEPT !.text = t, !.mode = "literary"]
           rec == Record("text", "literary", "literary_analysis_v1", LITERARY_KEYS)
       IN IF raises
            THEN /\ resp' = Failure("analyze_literary", [req EXCEPT !.fault = TRUE], 500,
                                    "Literary analysis failed")
                 /\ store' = store
          ELSE /\ store' = Append(store, rec)
               /\ resp' = Created("analyze_literary", req, rec)
  /\ UNCHANGED <<fetchVars, httpExc, extractVars, addr, blocked>>
  /\ UNCHANGED sharedVars

\* POST /v1/analyze/literary: the ValueError of analyze_literary_text for a
\* text under 200 characters becomes a 400
analyze_literary_endpoint ==
  /\ pc = "idle"
  /\ Len(store) < MaxRecords
  /\ \E t \in LiteraryTexts, raises \in BOOLEAN :
       LET req == [NoRequest EXCEPT !.text = t, !.mode = "literary"]
           rec == Record("text", "literary", "literary_analysis_v1", LITERARY_KEYS)
       IN IF Len(t) < LiteraryMinLen
            THEN /\ resp' = Failure("analyze_literary", req, 400,
                                    "Text is too short for literary analysis")
                 /\ store' = store
          ELSE IF raises
            THEN /\ resp' = Failure("analyze_literary", [req EXCEPT !.fault = TRUE], 500,
                                    "Literary analysis failed")
                 /\ store' = store
          ELSE /\ store' = Append(store, rec)
               /\ resp' = Created("analyze_literary", req, rec)
  /\ UNCHANGED <<fetchVars, httpExc, extractVars, addr, blocked>>
  /\ UNCHANGED sharedVars

\* GET /v1/analyses/{analysis_id}: 404 for an unknown id; the response is
\* built from result["sentiment"] and result["word_count"], and the KeyError
\* of a row without them is not handled
get_analysis ==
  /\ pc = "idle"
  /\ \E id \in 1..(MaxRecords + 1) :
       LET req == [NoRequest EXCEPT !.id = id]
           found == SelectSeq(store, LAMBDA r : r.id = id)
       IN resp' = IF found = <<>>
                    THEN Failure("get_analysis", req, 404, "Analysis not found")
                  ELSE IF ~PageReadable(<<found[1]>>)
                    THEN Failure("get_analysis", req, 500, "Internal Server Error")
                  ELSE Created("get_analysis", req, found[1])
  /\ UNCHANGED <<store, fetchVars, httpExc, extractVars, addr, blocked>>
  /\ UNCHANGED sharedVars

\* GET /v1/analyses: limit and offset are validated (422), the rows are
\* filtered, counted, ordered newest first and cut to the page; the
\* responses of the page are built like that of get_analysis
list_analyses ==
  /\ pc = "idle"
  /\ \E st \in SourceFilters, limit \in Limits, offset \in Offsets :
       LET req == [NoRequest EXCEPT !.source_type = st, !.limit = limit, !.offset = offset]
           query == SelectSeq(store, LAMBDA r : st = "" \/ r.source_type = st)
           total == Len(query)
           analyses == OffsetLimit(OrderByCreatedDesc(query), offset, limit)
       IN resp' = IF limit < LimitMin \/ limit > LimitMax \/ offset < 0
                    THEN Failure("list_analyses", req, 422, "validation error")
                  ELSE IF ~PageReadable(analyses)
                    THEN Failure("list_analyses", req, 500, "Internal Server Error")
                  ELSE [NoResponse EXCEPT !.op = "list_analyses", !.req = req,
                                          !.status = 200, !.total = total,
                                          !.limit = limit, !.offset = offset,
                                          !.ids = [i \in 1..Len(analyses) |-> analyses[i].id]]
  /\ UNCHANGED <<store, fetchVars, httpExc, extractVars, addr, blocked>>
  /\ UNCHANGED sharedVars

NextApi ==
  \/ analyze_text_endpoint
  \/ call_fetch_article_text
  \/ analyze_url_endpoint
  \/ analyze_image_endpoint
  \/ analyze_literary_endpoint
  \/ get_analysis
  \/ list_analyses

SpecApi == InitApi /\ [][NextApi]_vars

(***************************************************************************)
(* Properties.                                                             *)
(***************************************************************************)
\* the ranges of the table, as intervals of the leading units
InListedRange(a) ==
  IF a.v = 4
    THEN \/ a.b[1] = 127
         \/ a.b[1] = 10
         \/ a.b[1] = 172 /\ a.b[2] \in 16..31
         \/ a.b[1] = 192 /\ a.b[2] = 168
         \/ a.b[1] = 169 /\ a.b[2] = 254
    ELSE \/ a.b = <<0, 0, 0, 0, 0, 0, 0, 1>>
         \/ a.b[1] \in 64512..65023
         \/ a.b[1] \in 65152..65215

\* the scheme a typed input carries: its scheme piece when a colon follows
TypedScheme(in) == IF in.sep \in {Sep_full, Sep_colon} THEN in.scheme ELSE <<>>

\* the typed input is an http or https URL
TypedHttp(in) == TypedScheme(in) \in HttpSpellings

\* the typed input has no host: no authority at all, or one without a host
TypedNoHost(in) == in.sep # Sep_full \/ in.auth \in NoHostAuths

\* the verdict of the call's is_safe_url
GateVerdict == gateLog[1].verdict

\* C1: the address check reports an address blocked if and only if it lies
\* in one of 127.0.0.0/8, 10.0.0.0/8, 172.16.0.0/12, 192.168.0.0/16,
\* 169.254.0.0/16, ::1/128, fc00::/7, fe80::/10.
C1_BlockedIffInListedRange ==
  blocked # "unset" => (blocked = "blocked" <=> InListedRange(addr))

\* C1 witness: the last address of 172.16.0.0/12 has been checked and blocked
C1_Witness == addr = V4(172, 31, 255, 255) /\ blocked = "blocked"

BlockedLiteralAuths ==
  { A_127_0_0_1, A_127_0_0_2, A_v6loopback, A_10_255, A_172_31, A_192_168_255,
    A_169_254, A_localhost }

\* C2: for every http or https URL with a host, if any address the host
\* resolves to is in a blocked range then is_safe_url returns False (for
\* every address of a multi-address host, not only the first), and so it
\* does for the literal hosts 127.0.0.1, 127.0.0.2, [::1], 10.255.255.255,
\* 172.31.255.255, 192.168.255.255, 169.254.0.1 and localhost.
C2_AnyBlockedAddressRejects ==
  [][ (pc = "called" /\ pc' # "called" /\ TypedHttp(input) /\ ~TypedNoHost(input))
        => /\ (\E a \in getaddrinfo(hostname(urlparse(url)), dns) : InListedRange(a))
                => ~gateLog'[1].verdict.ok
           /\ input.auth \in BlockedLiteralAuths => ~gateLog'[1].verdict.ok ]_vars

C4_ConnectsOnlyChecked ==
  (hops = 0 /\ connected # <<>>) => connected[1].addr \in GateVerdict.checked

\* C5: every redirect hop is validated by is_safe_url before it is connected
\* to, so a fetch that starts at a safe URL never connects, through a
\* redirect, to a host resolving into a blocked range.
C5_RedirectHopsValidated ==
  (hops > 0 /\ connected # <<>>)
    => /\ \E j \in DOMAIN gateLog :
            gateLog[j].url = connected[1].url /\ gateLog[j].verdict.ok
       /\ ~InListedRange(connected[1].addr)

\* C6: is_safe_url rejects every URL whose scheme is not http or https,
\* compared case-insensitively (file, ftp, javascript and scheme-less strings
\* included), and performs no name resolution on that path.
C6_NonHttpSchemeRejectedUnresolved ==
  pc # "called"
    => /\ ~TypedHttp(input)
            => /\ ~GateVerdict.ok
               /\ error = "blocked"
               /\ resolveCalls = 0
               /\ fetched = <<>>
       /\ GateVerdict.reason = "scheme" => ~TypedHttp(input)

\* C6 witness: file:///etc/passwd has been rejected without a resolution
C6_Witness ==
  /\ input = Typed(T_file, Sep_full, <<>>, P_passwd)
  /\ pc = "raised"
  /\ resolveCalls = 0

\* C7: is_safe_url returns True for every http or https URL with a host whose
\* resolved addresses, IPv4 or IPv6, all lie outside the blocked ranges.
C7_PublicHostAccepted ==
  [][ (pc = "called" /\ pc' # "called" /\ TypedHttp(input) /\ ~TypedNoHost(input))
        => LET as == getaddrinfo(hostname(urlparse(url)), dns)
           IN (as # {} /\ \A a \in as : ~InListedRange(a)) => gateLog'[1].verdict.ok ]_vars

\* C9: is_safe_url rejects every http or https URL that has no hostname in
\* its authority, without performing name resolution.
C9_NoHostRejectedUnresolved ==
  (pc # "called" /\ TypedHttp(input) /\ TypedNoHost(input))
    => /\ ~GateVerdict.ok
       /\ GateVerdict.reason = "no_host"
       /\ error = "blocked"
       /\ resolveCalls = 0
       /\ fetched = <<>>

\* C9 witness: http://:80/x has been rejected
C9_Witness ==
  /\ input = Typed(T_http, Sep_full, A_portonly, P_x)
  /\ pc = "raised"
  /\ ~GateVerdict.ok

\* name resolution of the URL's host fails under the resolver's current answers
ResolutionFails ==
  LET parsed == urlparse(url)
  IN /\ TypedHttp(input)
     /\ ~TypedNoHost(input)
     /\ ~parsed.err
     /\ gethostbyname(hostname(parsed), dns).exc # "none"

\* C10: when name resolution of the host fails, is_safe_url rejects the URL
\* and fetch_article_text raises without issuing any outbound request.
C10_UnresolvableRejected ==
  /\ [][ (pc = "called" /\ pc' # "called" /\ ResolutionFails)
           => /\ ~gateLog'[1].verdict.ok
              /\ pc' = "raised"
              /\ error' = "blocked" ]_vars
  /\ [](error = "blocked" => (pc = "raised" /\ fetched = <<>> /\ connected = <<>>))

\* C10 witness: example.com had no address record and the call has raised
C10_Witness ==
  /\ input = Typed(T_http, Sep_full, A_example, P_x)
  /\ dns[N_example] = <<>>
  /\ pc = "raised"
  /\ error = "blocked"
  /\ resolveCalls = 1

\* C11: a fetch whose timeout expires ends the call with the timeout error
\* ("Request timed out"), never with the generic fetch failure and never
\* the other way round; the call has then ended and no extraction follows.
C11_TimeoutRaisesTimeoutError ==
  /\ [](httpExc = "TimeoutException" => (pc = "raised" /\ error = "timeout"))
  /\ [](error = "timeout" => httpExc = "TimeoutException")
  /\ [][ httpExc = "TimeoutException"
           => (pc' = "raised" /\ error' = "timeout" /\ rd' = rd /\ text' = text) ]_vars

\* C11 witness: the request was sent and timed out
C11_Witness ==
  /\ httpExc = "TimeoutException"
  /\ connected # <<>>
  /\ pc = "raised"
  /\ error = "timeout"

\* C12: a connection or protocol failure and a non-success status after
\* redirects are each surfaced as an error of their own: the error raised
\* for one is not the error that a timeout or the other of the two raises,
\* and in both cases no text is returned to the caller.
C12_TypedFetchErrors ==
  httpExc \in {"TransportError", "HTTPStatusError"}
    => /\ pc = "raised"
       /\ \A other \in {"TimeoutException", "TransportError", "HTTPStatusError"} \ {httpExc} :
            FetchError(other) # error

(***************************************************************************)
(* The extraction, stated on the document as the parser built it.          *)
(***************************************************************************)
\* the element a node is directly inside; 0 is the root
ParentOf(d, j) ==
  LET above == {i \in 1..(j - 1) : d[i].depth < d[j].depth}
  IN IF above = {} THEN 0 ELSE SetMax(above)

RECURSIVE Ancestors(_, _)
Ancestors(d, j) ==
  IF ParentOf(d, j) = 0 THEN {} ELSE {ParentOf(d, j)} \cup Ancestors(d, ParentOf(d, j))

\* the node is, or is inside, a script, style, nav, footer or header element
Chrome(d, j) ==
  \E i \in Ancestors(d, j) \cup {j} :
    d[i].kind \in {"script", "style", "nav", "footer", "header"}

\* the strings of the document that are inside element c (anywhere when
\* c = 0) and outside the removed elements, trimmed, the blank ones left out
VisibleStrings(d, c) ==
  LET at == InOrder({j \in 1..Len(d) :
                       /\ d[j].kind = "#text"
                       /\ ~Chrome(d, j)
                       /\ (c = 0 \/ c \in Ancestors(d, j))
                       /\ \E k \in 1..Len(d[j].s) : d[j].s[k] \notin Whitespace})
  IN [k \in 1..Len(at) |-> Strip(d[at[k]].s)]

\* the first article outside the removed elements, else the first main, else
\* the root
TheContainer(d) ==
  LET firstOf(tag) == {i \in 1..Len(d) :
                         /\ d[i].kind = tag /\ ~Chrome(d, i)
                         /\ \A h \in 1..(i - 1) : ~(d[h].kind = tag /\ ~Chrome(d, h))}
  IN IF firstOf("article") # {} THEN CHOOSE i \in firstOf("article") : TRUE
     ELSE IF firstOf("main") # {} THEN CHOOSE i \in firstOf("main") : TRUE
     ELSE 0

\* the <p> elements inside the container, outside the removed elements
ParagraphsOf(d) ==
  {j \in 1..Len(d) :
     /\ d[j].kind = "p"
     /\ ~Chrome(d, j)
     /\ (TheContainer(d) = 0 \/ TheContainer(d) \in Ancestors(d, j))}

\* the text of a <p> element: its strings run together
ParagraphText(d, j) == Join(VisibleStrings(d, j), <<>>)

\* the non-empty texts of the paragraphs, in document order, one per line
ParagraphLines(d) ==
  LET ps == InOrder({j \in ParagraphsOf(d) : ParagraphText(d, j) # <<>>})
  IN Join([k \in 1..Len(ps) |-> ParagraphText(d, ps[k])], <<NL>>)

\* the visible text of the whole document, one string per line
FlattenedText(d) == Join(VisibleStrings(d, 0), <<NL>>)

FirstNonTrivialTier ==
  IF ~rd.raised /\ Strip(ReadabilityTier(rd)) # <<>> THEN ReadabilityTier(rd)
  ELSE IF ParagraphLines(doc) # <<>> THEN ParagraphLines(doc)
  ELSE FlattenedText(doc)

C15_ParagraphsOfContainer ==
  (pc = "returned" /\ rd.raised /\ ParagraphsOf(doc) # {}) => text = ParagraphLines(doc)

\* C15 (amended): the same, when at least one of the <p> elements of the
\* container has non-empty text.
C15_NonEmptyParagraphsOfContainer ==
  (pc = "returned" /\ rd.raised /\ \E j \in ParagraphsOf(doc) : ParagraphText(doc, j) # <<>>)
    => text = ParagraphLines(doc)

\* C15 witness: a page with paragraphs at the root, in <main> and in
\* <article>; the text of the one non-empty paragraph of <article> is
\* returned
C15_Witness ==
  /\ pc = "returned"
  /\ rd.raised
  /\ doc = D_both
  /\ text = S_a

\* C16: when the paragraph tier finds no paragraph text, the result is the
\* whole document's visible text (the strings outside script, style, nav,
\* footer and header elements), flattened in document order.
C16_WholeDocumentText ==
  (pc = "returned" /\ rd.raised /\ ParagraphLines(doc) = <<>>) => text = FlattenedText(doc)

\* C16 witness: a page with no paragraph outside its <nav> and with text in
\* a <div>; that text is returned
C16_Witness ==
  /\ pc = "returned"
  /\ rd.raised
  /\ doc = D_flat
  /\ text = <<"a", NL, "b">>

(***************************************************************************)
(* The API.                                                                *)
(***************************************************************************)
\* the rows that match the source_type filter of the request
Matching(req) ==
  {r \in Range(store) : req.source_type = "" \/ r.source_type = req.source_type}

\* the stored row with the id
RowOf(id) == CHOOSE r \in Range(store) : r.id = id

\* the request passed the validation of limit (1..100) and offset (>= 0)
ValidPage(req) == req.limit \in 1..100 /\ req.offset >= 0

\* the detail mentions "blocked" or "security"
MentionsBlockedOrSecurity(detail) == detail = "URL blocked for security reasons"

\* C17: POST /v1/analyze/url answers 400 with a detail that mentions
\* "blocked" or "security" for every URL is_safe_url rejects, and 400 for
\* every fetch failure raised as ValueError; a 500 is the answer to
\* unexpected failures only, never to a request whose outcome the handler
\* foresees (a rejected URL, a failed fetch, too little text).
C17_UrlErrorsAre400 ==
  resp.op = "analyze_url"
    => /\ resp.req.fetch = "blocked"
            => (resp.status = 400 /\ MentionsBlockedOrSecurity(resp.detail))
       /\ resp.req.fetch \in {"timeout", "failed"} => resp.status = 400
       /\ resp.status >= 500
            => (resp.req.fetch = "none" /\ Len(Strip(resp.req.text)) >= 10)

\* C18: GET /v1/analyses/{analysis_id} returns 200 with the same analysis_id
\* and source_type for every id a successful create endpoint (text, url,
\* image or literary) returned, and 404 for every id that was never stored.
C18_GetReturnsStored ==
  resp.op = "get_analysis"
    => IF \E r \in Range(store) : r.id = resp.req.id
         THEN /\ resp.status = 200
              /\ resp.id = resp.req.id
              /\ resp.source_type = RowOf(resp.req.id).source_type
         ELSE resp.status = 404

\* C19: after any sequence of successful creates, GET /v1/analyses returns
\* 200 with total equal to the number of stored rows that match the
\* source_type filter (all rows without a filter), whatever limit and
\* offset are.
C19_ListTotal ==
  (resp.op = "list_analyses" /\ ValidPage(resp.req))
    => /\ resp.status = 200
       /\ resp.total = Cardinality(Matching(resp.req))

\* C20: for limit in 1..100 and offset >= 0, GET /v1/analyses returns
\* exactly min(limit, max(0, total - offset)) analyses, newest first, each
\* matching the source_type filter, and echoes limit and offset.
C20_ListPage ==
  (resp.op = "list_analyses" /\ ValidPage(resp.req))
    => LET total == Cardinality(Matching(resp.req))
           rest == IF total > resp.req.offset THEN total - resp.req.offset ELSE 0
       IN /\ Len(resp.ids) = (IF resp.req.limit < rest THEN resp.req.limit ELSE rest)
          /\ \A i \in 1..Len(resp.ids) : \E r \in Matching(resp.req) : r.id = resp.ids[i]
          /\ \A i, j \in 1..Len(resp.ids) :
               i < j => RowOf(resp.ids[i]).created_at > RowOf(resp.ids[j]).created_at
          /\ resp.limit = resp.req.limit
          /\ resp.offset = resp.req.offset

\* the rows store' holds beyond those of store
Added == SubSeq(store', Len(store) + 1, Len(store'))

\* store' is store with rows appended
Appended == Len(store') >= Len(store) /\ SubSeq(store', 1, Len(store)) = store

\* C21: POST /v1/analyze/literary with a non-empty text shorter than 200
\* characters returns 400 with a 'too short' detail and stores no record;
\* with a text of 200 or more characters it returns 200 and stores exactly
\* one record (unless the analysis or the database fails unexpectedly).
C21_LiteraryLengthGate ==
  [][ (pc' = "idle" /\ resp'.op = "analyze_literary" /\ ~resp'.req.fault) =>
        IF Len(resp'.req.text) < 200
          THEN /\ resp'.status = 400
               /\ resp'.detail = "Text is too short for literary analysis"
               /\ store' = store
          ELSE /\ resp'.status = 200
               /\ Appended
               /\ Len(Added) = 1 ]_vars

\* a text of exactly 200 characters was analysed and its record is the one
\* row of the table
C21_Witness ==
  /\ resp.op = "analyze_literary"
  /\ Len(resp.req.text) = 200
  /\ resp.status = 200
  /\ Len(store) = 1
  /\ store[1].id = resp.id

\* the operations that create an analysis
AnalyzeOps == {"analyze_text", "analyze_url", "analyze_image", "analyze_literary"}

C23_TooLittleTextIs400 ==
  [][ (/\ pc' = "idle"
       /\ resp'.op = "analyze_url"
       /\ resp'.req.fetch = "none"
       /\ Len(Strip(resp'.req.text)) < 10)
        => /\ resp'.status = 400
           /\ resp'.detail = "Could not extract meaningful text from URL"
           /\ store' = store ]_vars

\* a request of another client is served from its first to its last statement
OtherRequestServed ==
  \/ analyze_text_endpoint
  \/ analyze_image_endpoint
  \/ analyze_literary_endpoint
  \/ get_analysis
  \/ list_analyses

\* C24: one request whose name resolution or fetch is slow does not stall
\* other requests: while analyze_url_endpoint is blocked in
\* fetch_article_text for one client, requests of other clients can still
\* start and complete.
C24_SlowFetchStallsNobody == pc = "fetching" => ENABLED OtherRequestServed

\* C25: every call of fetch_article_text eventually terminates with
\* extracted text or an error, even when the name resolver or the remote
\* server never answers (the name resolution and the network fetch are each
\* bounded by an explicit timeout).
C25_FetchTerminates == <>(pc \in {"returned", "raised"})

C27_TableNeverMutated ==
  [][ /\ ranges' = ranges
      /\ ranges' = BLOCKED_IP_RANGES
      /\ \A r \in Requests :
           /\ calls'[r] # calls[r] => \A q \in Requests \ {r} : calls'[q] = calls[q]
           /\ calls'[r].addr = calls[r].addr
           /\ calls'[r].blocked # "unset"
                => (calls'[r].blocked = "blocked" <=> InListedRange(calls[r].addr)) ]_vars

\* two calls ended, one with an address of the last range of the table and
\* one with a public address
C27_Witness ==
  /\ calls # <<>>
  /\ calls[1].addr = V6(65152, 0, 0, 0, 0, 0, 0, 1)
  /\ calls[1].blocked = "blocked"
  /\ calls[2].addr = PublicV4
  /\ calls[2].blocked = "not_blocked"
  /\ ranges = BLOCKED_IP_RANGES

\* C28: a POST /v1/analyze/url request that ends in an error (gate
\* rejection, fetch failure, too little text, or analysis failure) leaves
\* the record store unchanged; a record with source_type 'url' is added only
\* by a request whose URL passed the gate and was fetched successfully.
C28_FailedUrlStoresNothing ==
  [][ /\ (pc' = "idle" /\ resp'.op = "analyze_url" /\ resp'.status # 200)
           => store' = store
      /\ \A i \in (Len(store) + 1)..Len(store') :
           store'[i].source_type = "url"
             => /\ resp'.op = "analyze_url"
                /\ resp'.status = 200
                /\ resp'.id = store'[i].id
                /\ resp'.req.fetch = "none"
                /\ Len(Strip(resp'.req.text)) >= 10 ]_vars

\* a request for a URL the gate refused, after one that was stored
C28_Witness ==
  /\ resp.op = "analyze_url"
  /\ resp.status = 400
  /\ resp.req.fetch = "blocked"
  /\ Len(store) = 1
  /\ store[1].source_type = "url"

\* the model_version that names a scorer
NameOf(scorer) ==
  IF scorer = "analyze_sentiment_smart"
    THEN "distilbert-base-uncased-finetuned-sst-2-english"
    ELSE "VADER (vaderSentiment)"

\* C29: the model_version stored with an analysis names the scorer that
\* produced its sentiment: when analyze_sentiment falls back from smart
\* mode to the fast lexicon scorer (model unavailable, or the model raising
\* at request time), the stored model_version is the fast scorer's name.
C29_ModelVersionNamesScorer ==
  (resp.op \in {"analyze_text", "analyze_url", "analyze_image"} /\ resp.status = 200)
    => RowOf(resp.id).model_version = NameOf(resp.req.scorer)

\* C30: every stored record has mode in {fast, smart, literary} and
\* source_type in {text, url, image}, after any sequence of requests to the
\* v1 analyze endpoints, the image endpoint with its form field mode
\* included.
C30_StoredModeAndSourceType ==
  \A i \in 1..Len(store) :
    /\ store[i].mode \in {"fast", "smart", "literary"}
    /\ store[i].source_type \in {"text", "url", "image"}

\* once the resolver has answered, the call terminates
FetchTerminatesAfterGate == (pc # "called") ~> (pc \in {"returned", "raised"})

====
